---------------------------- MODULE Spec2Model ----------------------------
(***************************************************************************)
(* Streaming speech recognition of waxberry-plugin:                        *)
(*   src/src/core/voice/doubao_stream_voice_extractor.py  (AsrWsClient)    *)
(*   src/src/api/routes/stream_voice_routes.py  (VoiceRecognitionService)  *)
(*                                                                         *)
(* The socket.io handlers run as green threads of one process.  A handler  *)
(* is atomic between two suspension points; the suspension points are the  *)
(* awaits of AsrWsClient.process_chunk (connect, send, recv), reached      *)
(* through the one shared asyncio loop of VoiceRecognitionService.         *)
(*                                                                         *)
(* Beside the service the module holds the frame codec (parse_response),   *)
(* the batch pacer (AsrWsClient.execute, segment_data_processor,           *)
(* slice_data), the tracker fed longer word lists, and the HTTP routes     *)
(*   src/src/api/routes/text_routes.py   (POST /api/v1/extract/bytes)      *)
(*   src/src/api/routes/image_routes.py  (POST /api/v1/textToImage)        *)
(* each with a specification of its own.                                   *)
(***************************************************************************)
EXTENDS Integers, Sequences, FiniteSets, TLC

(***************************************************************************)
(* Bounds of the model.                                                    *)
(***************************************************************************)
MaxSessions == 2
NumHandlers == 2
MaxSeq == 3
MaxRespSeq == 3
MaxWords == 1

(***************************************************************************)
(* Program constants.                                                      *)
(***************************************************************************)
success_code == 1000
FULL_CLIENT_REQUEST == 1
AUDIO_ONLY_REQUEST == 2
POS_SEQUENCE == 1
NEG_WITH_SEQUENCE == 3

SessionIds == 1..MaxSessions
Handlers == 1..NumHandlers
Callers == {"sidA", "sidB"}
(* Callers are interchangeable: the first session is FirstCaller's. *)
FirstCaller == "sidA"
Words == {"a", "b"}
Texts == {"", "a", "ab"}

RECURSIVE BoundedSeq(_, _)
BoundedSeq(S, n) ==
    IF n = 0 THEN {<<>>}
    ELSE LET shorter == BoundedSeq(S, n - 1)
         IN  shorter \cup {Append(q, x) : q \in {p \in shorter : Len(p) = n - 1}, x \in S}

InSeq(x, q) == \E i \in 1..Len(q) : q[i] = x

(***************************************************************************)
(* What one await of ws.recv() followed by parse_response produces: the    *)
(* call raises (the socket fails, the frame is malformed, the body does    *)
(* not inflate or is no JSON), or it returns the result dictionary.  The   *)
(* dictionary is modelled by the keys process_chunk reads.                 *)
(***************************************************************************)
Failures == {"sock_exc", "malformed", "gzip_fail", "json_fail"}

NoUtterances == [present |-> FALSE, list |-> <<>>]

UtteranceChoices ==
    {[has_words |-> FALSE, words |-> <<>>]}
        \cup {[has_words |-> TRUE, words |-> w] : w \in BoundedSeq(Words, MaxWords)}

UtteranceLists ==
    {NoUtterances}
        \cup {[present |-> TRUE, list |-> <<>>]}
        \cup {[present |-> TRUE, list |-> <<u>>] : u \in UtteranceChoices}

BlankResponse ==
    [outcome |-> "ok", has_seq |-> FALSE, payload_sequence |-> 0, has_msg |-> FALSE,
     has_result |-> FALSE, text |-> "", is_final |-> FALSE, utterances |-> NoUtterances]

FailedResponses == {[BlankResponse EXCEPT !.outcome = f] : f \in Failures}

SequenceFields ==
    {[has_seq |-> FALSE, payload_sequence |-> 0]}
        \cup {[has_seq |-> TRUE, payload_sequence |-> sq] : sq \in -1..MaxRespSeq}

ResultResponses ==
    {[outcome |-> "ok", has_seq |-> q.has_seq, payload_sequence |-> q.payload_sequence,
      has_msg |-> TRUE, has_result |-> TRUE, text |-> t, is_final |-> fin,
      utterances |-> u] :
        q \in SequenceFields, t \in Texts, fin \in BOOLEAN, u \in UtteranceLists}

Responses ==
    FailedResponses
        \cup {BlankResponse, [BlankResponse EXCEPT !.has_msg = TRUE]}
        \cup ResultResponses

(***************************************************************************)
(* The incremental result tracker of process_chunk.                        *)
(***************************************************************************)
RECURSIVE Join(_)
Join(ws) == IF ws = <<>> THEN "" ELSE Head(ws) \o Join(Tail(ws))

RECURSIVE FlattenWords(_)
FlattenWords(us) ==
    IF us = <<>> THEN <<>>
    ELSE (IF Head(us).has_words THEN Head(us).words ELSE <<>>) \o FlattenWords(Tail(us))

current_words(r) ==
    IF r.utterances.present THEN FlattenWords(r.utterances.list) ELSE <<>>

current_sequence_default_one(r) == IF r.has_seq THEN r.payload_sequence ELSE 1

current_sequence(r) == IF r.has_seq THEN r.payload_sequence ELSE 0

Accepted_any_sequence(c, r) ==
    /\ r.has_msg
    /\ r.has_result
    /\ r.text # ""

Accepted(c, r) ==
    /\ r.has_msg
    /\ r.has_result
    /\ r.text # ""
    /\ current_sequence(r) > c.last_sequence

new_words_positional(c, r) ==
    SubSeq(current_words(r), Len(c.last_words) + 1, Len(current_words(r)))

new_words(c, r) ==
    SelectSeq(current_words(r), LAMBDA w : ~InSeq(w, c.last_words))

NewTracker ==
    [last_text |-> "", last_sequence |-> 0, accumulated_text |-> "", last_words |-> <<>>]

AcceptedTracker_text_only(c, r) == [c EXCEPT !.accumulated_text = r.text]

AcceptedTracker(c, r) ==
    IF new_words(c, r) # <<>>
    THEN [last_text |-> r.text, last_sequence |-> current_sequence(r),
          accumulated_text |-> r.text, last_words |-> current_words(r)]
    ELSE [c EXCEPT !.last_text = r.text, !.last_sequence = current_sequence(r)]

track_stale_too(c, r) ==
    IF r.has_msg /\ r.has_result /\ r.text # "" /\ current_sequence(r) >= c.last_sequence
    THEN AcceptedTracker(c, r) ELSE c

track(c, r) == IF Accepted(c, r) THEN AcceptedTracker(c, r) ELSE c

partial_text(c, r) == IF Accepted(c, r) THEN Join(new_words(c, r)) ELSE ""

NoResult ==
    [returned |-> FALSE, has_error |-> FALSE, error |-> "", partial_text |-> "",
     is_final |-> FALSE, full_text |-> "", sequence |-> 0]

chunk_result(c, r) ==
    [returned |-> TRUE, has_error |-> FALSE, error |-> "",
     partial_text |-> partial_text(c, r),
     is_final |-> (r.has_msg /\ r.has_result /\ r.is_final),
     full_text |-> track(c, r).accumulated_text,
     sequence |-> track(c, r).last_sequence]

error_result_blank(c, e) ==
    [returned |-> TRUE, has_error |-> TRUE, error |-> e, partial_text |-> "",
     is_final |-> FALSE, full_text |-> "", sequence |-> c.last_sequence]

error_result(c, e) ==
    [returned |-> TRUE, has_error |-> TRUE, error |-> e, partial_text |-> "",
     is_final |-> FALSE, full_text |-> c.accumulated_text, sequence |-> c.last_sequence]


(***************************************************************************)
(* What the init exchange can answer: ws.recv() or parse_response raises,  *)
(* or the parsed frame has no payload_msg, or a payload_msg whose 'code'   *)
(* is absent (None), the success code or another code.                     *)
(***************************************************************************)
InitResponses ==
    {[outcome |-> f, has_msg |-> FALSE, has_code |-> FALSE, code |-> 0] : f \in Failures}
        \cup {[outcome |-> "ok", has_msg |-> FALSE, has_code |-> FALSE, code |-> 0],
              [outcome |-> "ok", has_msg |-> TRUE, has_code |-> FALSE, code |-> 0]}
        \cup {[outcome |-> "ok", has_msg |-> TRUE, has_code |-> TRUE, code |-> k] :
                k \in {success_code, success_code + 1}}

init_rejected(ir) ==
    ir.has_msg /\ (~ir.has_code \/ ir.code # success_code)

(***************************************************************************)
(* The frame codec: generate_header, generate_before_payload and           *)
(* parse_response.  A frame is a sequence of bytes.  gzip is modelled by   *)
(* its framing (two magic bytes before the body, the length of the body    *)
(* after it), json by the texts of a few documents.                        *)
(***************************************************************************)
PROTOCOL_VERSION == 1

FULL_SERVER_RESPONSE == 9

SERVER_ACK == 11

SERVER_ERROR_RESPONSE == 15

NO_SEQUENCE == 0

NEG_SEQUENCE == 2

NO_SERIALIZATION == 0

JSON == 1

NO_COMPRESSION == 0

GZIP == 1

Take(bs, n) == SubSeq(bs, 1, IF n < Len(bs) THEN n ELSE Len(bs))

Drop(bs, n) == SubSeq(bs, n + 1, Len(bs))

RECURSIVE Unsigned(_)
Unsigned(bs) ==
    IF bs = <<>> THEN 0 ELSE Unsigned(SubSeq(bs, 1, Len(bs) - 1)) * 256 + bs[Len(bs)]

Complement(bs) == [i \in 1..Len(bs) |-> 255 - bs[i]]

(* int.from_bytes(bs, "big", signed=...) *)
from_bytes(bs, signed) ==
    IF signed /\ bs # <<>> /\ bs[1] >= 128
    THEN 0 - Unsigned(Complement(bs)) - 1
    ELSE Unsigned(bs)

(* n.to_bytes(4, 'big', signed=True) *)
to_bytes(n) ==
    IF n >= 0
    THEN <<(n \div 16777216) % 256, (n \div 65536) % 256, (n \div 256) % 256, n % 256>>
    ELSE Complement(<<((0 - n - 1) \div 16777216) % 256, ((0 - n - 1) \div 65536) % 256,
                      ((0 - n - 1) \div 256) % 256, (0 - n - 1) % 256>>)

generate_header(message_type, flags, serial_method, compression_type) ==
    <<PROTOCOL_VERSION * 16 + 1,
      message_type * 16 + flags,
      serial_method * 16 + compression_type,
      0>>

generate_before_payload(sequence) == to_bytes(sequence)

JsonDocs == {"object", "number"}

json_dumps(d) == IF d = "object" THEN <<123, 125>> ELSE <<49>>

is_json(bs) == \E d \in JsonDocs : json_dumps(d) = bs

json_loads(bs) == CHOOSE d \in JsonDocs : json_dumps(d) = bs

gzip_compress(bs) == <<31, 139>> \o bs \o <<Len(bs)>>

is_gzip(z) ==
    \/ z = <<>>
    \/ Len(z) >= 3 /\ z[1] = 31 /\ z[2] = 139 /\ z[Len(z)] = Len(z) - 3

gzip_decompress(z) == IF z = <<>> THEN <<>> ELSE SubSeq(z, 3, Len(z) - 1)

(* The fields of the dict parse_response returns, or the exception it raises. *)
Raise(exception) ==
    [outcome |-> exception, raises |-> TRUE, is_last_package |-> FALSE,
     has_payload_sequence |-> FALSE, payload_sequence |-> 0,
     has_seq |-> FALSE, seq |-> 0, has_code |-> FALSE, code |-> 0,
     has_payload_msg |-> FALSE, payload_msg |-> [form |-> "none", bytes |-> <<>>, doc |-> ""],
     payload_size |-> 0]

NotParsed ==
    [outcome |-> "pending", raises |-> FALSE, is_last_package |-> FALSE,
     has_payload_sequence |-> FALSE, payload_sequence |-> 0,
     has_seq |-> FALSE, seq |-> 0, has_code |-> FALSE, code |-> 0,
     has_payload_msg |-> FALSE, payload_msg |-> [form |-> "none", bytes |-> <<>>, doc |-> ""],
     payload_size |-> 0]

last_package_terminal_only(flags) == flags = NEG_WITH_SEQUENCE

last_package(flags) == (flags \div 2) % 2 = 1

payload_start(message_type, payload) ==
    CASE message_type = FULL_SERVER_RESPONSE -> 4
      [] message_type = SERVER_ACK -> IF Len(payload) >= 8 THEN 8 ELSE -1
      [] message_type = SERVER_ERROR_RESPONSE -> 8
      [] OTHER -> -1

decode_payload(result, serialization_method, message_compression, raw) ==
    IF message_compression = GZIP /\ ~is_gzip(raw)
    THEN Raise("BadGzipFile")
    ELSE LET body == IF message_compression = GZIP THEN gzip_decompress(raw) ELSE raw
         IN  IF serialization_method = JSON
             THEN IF is_json(body)
                  THEN [result EXCEPT !.has_payload_msg = TRUE,
                                      !.payload_msg = [form |-> "json", bytes |-> <<>>,
                                                       doc |-> json_loads(body)]]
                  ELSE Raise("JSONDecodeError")
             ELSE [result EXCEPT !.has_payload_msg = TRUE,
                                 !.payload_msg =
                                     [form |-> IF serialization_method = NO_SERIALIZATION
                                               THEN "bytes" ELSE "str",
                                      bytes |-> body, doc |-> ""]]

parse_response(res) ==
    IF Len(res) < 4
    THEN Raise("IndexError")
    ELSE LET header_size == res[1] % 16
             message_type == res[2] \div 16
             flags == res[2] % 16
             serialization_method == res[3] \div 16
             message_compression == res[3] % 16
             payload0 == Drop(res, header_size * 4)
             with_seq == flags % 2 = 1
             payload == IF with_seq THEN Drop(payload0, 4) ELSE payload0
             start == payload_start(message_type, payload)
             result ==
                 [NotParsed EXCEPT
                     !.outcome = "ok",
                     !.is_last_package = last_package(flags),
                     !.has_payload_sequence = with_seq,
                     !.payload_sequence =
                         IF with_seq THEN from_bytes(Take(payload0, 4), TRUE) ELSE 0,
                     !.has_seq = (message_type = SERVER_ACK),
                     !.seq = IF message_type = SERVER_ACK
                             THEN from_bytes(Take(payload, 4), TRUE) ELSE 0,
                     !.has_code = (message_type = SERVER_ERROR_RESPONSE),
                     !.code = IF message_type = SERVER_ERROR_RESPONSE
                              THEN from_bytes(Take(payload, 4), FALSE) ELSE 0]
         IN  IF start < 0
             THEN result
             ELSE LET sized ==
                          [result EXCEPT !.payload_size =
                              IF message_type = FULL_SERVER_RESPONSE
                              THEN from_bytes(Take(payload, 4), TRUE)
                              ELSE from_bytes(Take(Drop(payload, 4), 4), FALSE)]
                      decoded == decode_payload(sized, serialization_method,
                                                message_compression, Drop(payload, start))
                  IN  decoded

(***************************************************************************)
(* The state.                                                              *)
(*   sessions   VoiceRecognitionService.sessions: session id -> session    *)
(*   next_id    the next fresh session id (uuid4 never repeats)            *)
(*   client     the AsrWsClient made for each session id                   *)
(*   co         each handler: the event it serves, the session, where it   *)
(*              is suspended, and what it returned and emitted once done;  *)
(*              for a disconnect the caller, its sessions_to_remove        *)
(*              (purge) and those still to clean up (todo)                 *)
(*   wire       the frames sent on each session's socket, in order         *)
(*   init_ok    whether the init exchange on each session's socket passed  *)
(*              the check of its response                                  *)
(*   resend     the response frame the service delivers once more to a     *)
(*              session                                                    *)
(*   codec      a message under the frame codec: the message, its frame,   *)
(*              what was done to the frame, and what parse_response made   *)
(*              of it                                                      *)
(*   batch      one run of AsrWsClient.execute on a recorded buffer: its   *)
(*              inputs, the segments of slice_data, the frames sent        *)
(*   http       one request to an HTTP route and its response              *)
(*   feed       one AsrWsClient fed responses with longer word lists       *)
(***************************************************************************)
VARIABLES sessions, next_id, client, co, wire, init_ok, resend, codec, batch, http, feed

vars == <<sessions, next_id, client, co, wire, init_ok, resend, codec, batch, http, feed>>

service == <<sessions, next_id, client, co, wire, init_ok, resend>>

units == <<codec, batch, http, feed>>

NoPayload == [form |-> "none", bytes |-> <<>>, doc |-> ""]

NoMessage ==
    [kind |-> 0, flags |-> 0, serial_method |-> 0, compression |-> 0,
     has_sequence |-> FALSE, sequence |-> 0, payload |-> NoPayload]

CodecOff ==
    [stage |-> "off", msg |-> NoMessage, res |-> <<>>, damage |-> "none",
     parsed |-> NotParsed]

BatchOff ==
    [stage |-> "off", has_path |-> FALSE, format |-> "pcm", rate |-> 0, bits |-> 0,
     channel |-> 0, seg_duration |-> 0, mp3_seg_size |-> 0, streaming |-> FALSE,
     data |-> <<>>, segment_size |-> 0, chunks |-> <<>>, i |-> 0, seq |-> 0,
     sent |-> <<>>, budget |-> FALSE, result |-> "none"]

NoReply ==
    [status |-> 0, success |-> FALSE, has_error |-> FALSE, error |-> "",
     has_message |-> FALSE, message |-> ""]

HttpOff ==
    [stage |-> "off", route |-> "none", data |-> <<>>, has_file_type |-> FALSE,
     file_type |-> "", is_json |-> FALSE, has_text |-> FALSE, text |-> "",
     has_prompt |-> FALSE, prompt |-> "", outcome |-> "none", reply |-> NoReply,
     calls |-> 0]

FeedOff ==
    [stage |-> "off", tracker |-> NewTracker, pre |-> NewTracker, resp |-> BlankResponse,
     partial_text |-> ""]

NoFrame == [BlankResponse EXCEPT !.outcome = "none"]

NewClient ==
    [has_sequence |-> FALSE, has_ws |-> FALSE, sequence |-> 0, tracker |-> NewTracker]

NewSession(sid) == [sid |-> sid, asr_client |-> FALSE, is_active |-> TRUE]

Idle ==
    [op |-> "none", sess |-> 0, pc |-> "idle", pre |-> NewTracker, result |-> NoResult,
     events |-> {}, resp |-> NoFrame, replay |-> FALSE,
     caller |-> "", purge |-> {}, todo |-> {}]

Suspended == {"connect", "init_send", "init_recv", "audio_send", "audio_recv"}

(* VoiceRecognitionService.__init__: no session, no handler running. *)
ServiceInit ==
    /\ sessions = [x \in {} |-> NewSession("sidA")]
    /\ next_id = 1
    /\ client = [s \in SessionIds |-> NewClient]
    /\ co = [h \in Handlers |-> Idle]
    /\ wire = [s \in SessionIds |-> <<>>]
    /\ init_ok = [s \in SessionIds |-> FALSE]
    /\ resend = [s \in SessionIds |-> NoFrame]

Init ==
    /\ ServiceInit
    /\ codec = CodecOff
    /\ batch = BatchOff
    /\ http = HttpOff
    /\ feed = FeedOff

(***************************************************************************)
(* loop.run_until_complete raises RuntimeError when the shared loop is     *)
(* already running a coroutine of another handler.                         *)
(***************************************************************************)
loop_never_running == FALSE

loop_is_running == \E h \in Handlers : co[h].pc \in Suspended

(* A finished handler is observed before anything else happens, and the     *)
(* loop of cleanup_client_sessions goes on to its next session at once.     *)
Observing == \E h \in Handlers : co[h].pc \in {"done", "cleanup_next"}

(* A new event is served by a fresh green thread: the first free handler. *)
Spawn(h) ==
    /\ co[h].pc = "idle"
    /\ \A g \in Handlers : g < h => co[g].pc # "idle"

Registered(s) == s \in DOMAIN sessions

(* A caller whose disconnect is being served sends no further event. *)
Leaving(sid) ==
    \E g \in Handlers : co[g].op = "disconnect" /\ co[g].caller = sid

Remove(s) == [x \in DOMAIN sessions \ {s} |-> sessions[x]]

Done(h, op, s, pre, res, ev) ==
    [op |-> op, sess |-> s, pc |-> "done", pre |-> pre, result |-> res, events |-> ev,
     resp |-> NoFrame, replay |-> FALSE,
     caller |-> co[h].caller, purge |-> co[h].purge, todo |-> {}]

(***************************************************************************)
(* process_chunk up to its first await: a client that lacks _sequence or   *)
(* _ws restarts at sequence 1 and connects, any other client takes the     *)
(* next sequence number and sends the audio frame.                         *)
(***************************************************************************)
needs_connect_always(c) == TRUE

needs_connect(c) == ~c.has_sequence \/ ~c.has_ws

can_begin(c) == needs_connect(c) \/ c.sequence < MaxSeq

next_sequence_stuck(c) == c.sequence

next_sequence(c) == c.sequence + 1

begin_chunk(c) ==
    IF needs_connect(c)
    THEN [c EXCEPT !.has_sequence = TRUE, !.sequence = 1]
    ELSE [c EXCEPT !.sequence = next_sequence(c)]

begin_pc(c) == IF needs_connect(c) THEN "connect" ELSE "audio_send"

Start(h, op, s) ==
    /\ client' = [client EXCEPT ![s] = begin_chunk(client[s])]
    /\ co' = [co EXCEPT ![h] = [Idle EXCEPT !.op = op, !.sess = s,
                                            !.pc = begin_pc(client[s]),
                                            !.pre = client[s].tracker]]

(***************************************************************************)
(* What the caller of process_chunk does with its result.                  *)
(***************************************************************************)
audio_events(res) ==
    IF res.returned
    THEN (IF res.partial_text # "" THEN {"partial_result"} ELSE {})
    ELSE IF res.has_error THEN {"error"} ELSE {}

finish_events(op, res) ==
    CASE op = "start" -> {"session_created"}
      [] op = "audio" -> audio_events(res) \cup {"audio_received"}
      [] op = "end" -> {"session_ended"}
      [] op = "disconnect" -> {}

finish_sessions_kept(op, s) ==
    CASE op = "start" ->
            IF Registered(s) THEN [sessions EXCEPT ![s].asr_client = TRUE] ELSE sessions
      [] op = "audio" -> sessions
      [] op = "end" -> sessions
      [] op = "disconnect" -> IF Registered(s) THEN Remove(s) ELSE sessions

finish_sessions(op, s) ==
    CASE op = "start" ->
            IF Registered(s) THEN [sessions EXCEPT ![s].asr_client = TRUE] ELSE sessions
      [] op = "audio" -> sessions
      [] op \in {"end", "disconnect"} -> IF Registered(s) THEN Remove(s) ELSE sessions

(* cleanup_session ends in 'del self.sessions[session_id]': a KeyError when  *)
(* the entry was removed while the call awaited.  It leaves the handler     *)
(* before session_ended is emitted and ends the loop of                     *)
(* cleanup_client_sessions.                                                 *)
Finish(h, res, r) ==
    LET op == co[h].op
        s == co[h].sess
        key_error == op \in {"end", "disconnect"} /\ ~Registered(s)
    IN  /\ sessions' = finish_sessions(op, s)
        /\ co' = [co EXCEPT ![h] =
                     IF co[h].todo # {} /\ ~key_error
                     THEN [co[h] EXCEPT !.pc = "cleanup_next"]
                     ELSE [Done(h, op, s, co[h].pre, res,
                                IF key_error THEN {} ELSE finish_events(op, res))
                              EXCEPT !.resp = r,
                                     !.replay = (r # NoFrame /\ r = resend[s])]]

Frame(kind, flags, seq) == [kind |-> kind, flags |-> flags, seq |-> seq]

(* process_chunk never marks a fragment as the last one. *)
is_last == FALSE

audio_only_request(c) ==
    Frame(AUDIO_ONLY_REQUEST,
          IF is_last THEN NEG_WITH_SEQUENCE ELSE POS_SEQUENCE,
          IF is_last THEN 0 - c.sequence ELSE c.sequence)

(***************************************************************************)
(* start_recognition: registers the session, then create_asr_client runs   *)
(* process_chunk(b'') on the new client through the shared loop.           *)
(***************************************************************************)
handle_start_recognition(h, sid) ==
    /\ ~Observing
    /\ Spawn(h)
    /\ ~Leaving(sid)
    /\ next_id <= MaxSessions
    /\ next_id = 1 => sid = FirstCaller
    /\ next_id' = next_id + 1
    /\ IF loop_is_running
       THEN /\ sessions' = [x \in DOMAIN sessions \cup {next_id} |->
                               IF x = next_id THEN NewSession(sid) ELSE sessions[x]]
            /\ co' = [co EXCEPT ![h] =
                         Done(h, "start", next_id, NewTracker, NoResult, {"error"})]
            /\ UNCHANGED client
       ELSE /\ sessions' = [x \in DOMAIN sessions \cup {next_id} |->
                               IF x = next_id THEN NewSession(sid) ELSE sessions[x]]
            /\ Start(h, "start", next_id)
    /\ UNCHANGED units
    /\ UNCHANGED <<wire, init_ok, resend>>

(***************************************************************************)
(* audio_chunk: handle_audio_chunk and process_audio_data up to the first  *)
(* await of process_chunk.                                                 *)
(***************************************************************************)
audio_rejected(s, data_ok) ==
    \/ ~Registered(s)
    \/ ~sessions[s].is_active
    \/ ~data_ok

handle_audio_chunk(h, s, data_ok) ==
    /\ ~Observing
    /\ Spawn(h)
    /\ IF audio_rejected(s, data_ok)
       THEN /\ co' = [co EXCEPT ![h] =
                         Done(h, "audio", s, client[s].tracker, NoResult, {"error"})]
            /\ UNCHANGED client
       ELSE IF ~sessions[s].asr_client
       THEN /\ co' = [co EXCEPT ![h] =
                         Done(h, "audio", s, client[s].tracker, NoResult,
                              {"audio_received"})]
            /\ UNCHANGED client
       ELSE IF loop_is_running
       THEN /\ co' = [co EXCEPT ![h] =
                         Done(h, "audio", s, client[s].tracker, NoResult,
                              {"error", "audio_received"})]
            /\ UNCHANGED client
       ELSE /\ can_begin(client[s])
            /\ Start(h, "audio", s)
    /\ UNCHANGED units
    /\ UNCHANGED <<sessions, next_id, wire, init_ok, resend>>

(***************************************************************************)
(* end_recognition: for a registered session the handler sleeps (a         *)
(* blocking time.sleep, no other handler runs meanwhile) and calls         *)
(* cleanup_session, which runs a last process_chunk(b'') when the session  *)
(* has a client and then drops the session whatever that call returned.    *)
(***************************************************************************)
cleanup_session(h, s) ==
    IF Registered(s) /\ sessions[s].asr_client /\ ~loop_is_running
    THEN /\ can_begin(client[s])
         /\ Start(h, "end", s)
         /\ UNCHANGED sessions
    ELSE /\ sessions' = IF Registered(s) THEN Remove(s) ELSE sessions
         /\ co' = [co EXCEPT ![h] =
                      Done(h, "end", s, client[s].tracker, NoResult, {"session_ended"})]
         /\ UNCHANGED client

handle_end_recognition(h, s) ==
    /\ ~Observing
    /\ Spawn(h)
    /\ IF Registered(s)
       THEN cleanup_session(h, s)
       ELSE /\ co' = [co EXCEPT ![h] =
                         Done(h, "end", s, client[s].tracker, NoResult, {"error"})]
            /\ UNCHANGED <<sessions, client>>
    /\ UNCHANGED units
    /\ UNCHANGED <<next_id, wire, init_ok, resend>>

(***************************************************************************)
(* disconnect: cleanup_client_sessions lists the sessions of the caller    *)
(* and runs cleanup_session on each, in the order of the registry (the     *)
(* order of creation).                                                     *)
(***************************************************************************)
sessions_to_remove_everyone(sid) == DOMAIN sessions

sessions_to_remove(sid) == {s \in DOMAIN sessions : sessions[s].sid = sid}

First(S) == CHOOSE x \in S : \A y \in S : x <= y

handle_disconnect(h, sid) ==
    /\ ~Observing
    /\ Spawn(h)
    /\ ~Leaving(sid)
    /\ \A s \in sessions_to_remove(sid) : can_begin(client[s])
    /\ co' = [co EXCEPT ![h] =
                 IF sessions_to_remove(sid) = {}
                 THEN [Idle EXCEPT !.op = "disconnect", !.pc = "done", !.caller = sid]
                 ELSE [Idle EXCEPT !.op = "disconnect", !.pc = "cleanup_next",
                                   !.caller = sid,
                                   !.purge = sessions_to_remove(sid),
                                   !.todo = sessions_to_remove(sid)]]
    /\ UNCHANGED units
    /\ UNCHANGED <<sessions, next_id, client, wire, init_ok, resend>>

cleanup_client_sessions(h) ==
    /\ co[h].pc = "cleanup_next"
    /\ LET s == First(co[h].todo)
           rest == co[h].todo \ {s}
       IN  IF Registered(s) /\ sessions[s].asr_client /\ ~loop_is_running
           THEN /\ client' = [client EXCEPT ![s] = begin_chunk(client[s])]
                /\ co' = [co EXCEPT ![h] =
                             [co[h] EXCEPT !.sess = s, !.pc = begin_pc(client[s]),
                                           !.pre = client[s].tracker, !.todo = rest]]
                /\ UNCHANGED sessions
           ELSE /\ sessions' = IF Registered(s) THEN Remove(s) ELSE sessions
                /\ co' = [co EXCEPT ![h] =
                             IF rest = {}
                             THEN [co[h] EXCEPT !.sess = s, !.pc = "done", !.todo = rest]
                             ELSE [co[h] EXCEPT !.sess = s, !.todo = rest]]
                /\ UNCHANGED client
    /\ UNCHANGED units
    /\ UNCHANGED <<next_id, wire, init_ok, resend>>

(***************************************************************************)
(* The awaits of process_chunk.  A raise anywhere ends the call with the   *)
(* error result.                                                           *)
(***************************************************************************)
Fail(h, e, r) == Finish(h, error_result(client[co[h].sess].tracker, e), r)

connect(h, ok) ==
    LET s == co[h].sess
    IN  /\ ~Observing
        /\ co[h].pc = "connect"
        /\ IF ok
           THEN /\ client' = [client EXCEPT ![s].has_ws = TRUE]
                /\ co' = [co EXCEPT ![h].pc = "init_send"]
                /\ UNCHANGED sessions
           ELSE /\ Fail(h, "connect", NoFrame)
                /\ UNCHANGED client
        /\ UNCHANGED units
        /\ UNCHANGED <<next_id, wire, init_ok, resend>>

init_send(h, ok) ==
    LET s == co[h].sess
    IN  /\ ~Observing
        /\ co[h].pc = "init_send"
        /\ IF ok
           THEN /\ wire' = [wire EXCEPT ![s] =
                               Append(@, Frame(FULL_CLIENT_REQUEST, POS_SEQUENCE,
                                               client[s].sequence))]
                /\ co' = [co EXCEPT ![h].pc = "init_recv"]
                /\ UNCHANGED <<sessions, init_ok>>
           ELSE /\ Fail(h, "send", NoFrame)
                /\ UNCHANGED <<wire, init_ok>>
        /\ UNCHANGED units
        /\ UNCHANGED <<next_id, client, resend>>

init_recv(h, ir) ==
    LET s == co[h].sess
    IN  /\ ~Observing
        /\ co[h].pc = "init_recv"
        /\ IF ir.outcome # "ok"
           THEN /\ Fail(h, ir.outcome, NoFrame)
                /\ UNCHANGED <<client, init_ok>>
           ELSE IF init_rejected(ir)
           THEN /\ Fail(h, "init", NoFrame)
                /\ UNCHANGED <<client, init_ok>>
           ELSE /\ init_ok' = [init_ok EXCEPT ![s] = TRUE]
                /\ client' = [client EXCEPT ![s].sequence = next_sequence(client[s])]
                /\ co' = [co EXCEPT ![h].pc = "audio_send"]
                /\ UNCHANGED sessions
        /\ UNCHANGED units
        /\ UNCHANGED <<next_id, wire, resend>>

audio_send(h, ok) ==
    LET s == co[h].sess
    IN  /\ ~Observing
        /\ co[h].pc = "audio_send"
        /\ IF ok
           THEN /\ wire' = [wire EXCEPT ![s] =
                               Append(@, audio_only_request(client[s]))]
                /\ co' = [co EXCEPT ![h].pc = "audio_recv"]
                /\ UNCHANGED sessions
           ELSE /\ Fail(h, "send", NoFrame)
                /\ UNCHANGED wire
        /\ UNCHANGED units
        /\ UNCHANGED <<next_id, client, init_ok, resend>>

audio_recv(h, r) ==
    LET s == co[h].sess
        t == client[s].tracker
    IN  /\ ~Observing
        /\ co[h].pc = "audio_recv"
        /\ IF r.outcome # "ok"
           THEN /\ Fail(h, r.outcome, r)
                /\ UNCHANGED client
           ELSE /\ client' = [client EXCEPT ![s].tracker = track(t, r)]
                /\ Finish(h, chunk_result(t, r), r)
        /\ UNCHANGED units
        /\ UNCHANGED <<next_id, wire, init_ok>>

handler_exit(h) ==
    /\ co[h].pc = "done"
    /\ co' = [co EXCEPT ![h] = Idle]
    /\ UNCHANGED units
    /\ UNCHANGED <<sessions, next_id, client, wire, init_ok,
                   resend>>

(***************************************************************************)
(* The service with every session and handler; the recognition service     *)
(* answers from a small set of frames.                                     *)
(***************************************************************************)
SysResponses ==
    {r \in Responses :
        \/ r.outcome \in {"sock_exc", "gzip_fail"}
        \/ ~r.has_result
        \/ /\ r.text = "a"
           /\ r.has_seq
           /\ r.payload_sequence = MaxRespSeq
           /\ ~r.is_final
           /\ current_words(r) = <<"a">>}

recv_frame(h) ==
    /\ co[h].pc = "audio_recv"
    /\ \E r \in SysResponses : audio_recv(h, r) /\ UNCHANGED resend

Next ==
    \/ \E h \in Handlers, sid \in Callers : handle_start_recognition(h, sid)
    \/ \E h \in Handlers, s \in SessionIds, d \in BOOLEAN : handle_audio_chunk(h, s, d)
    \/ \E h \in Handlers, s \in SessionIds : handle_end_recognition(h, s)
    \/ \E h \in Handlers, sid \in Callers : handle_disconnect(h, sid)
    \/ \E h \in Handlers : cleanup_client_sessions(h)
    \/ \E h \in Handlers, ok \in BOOLEAN : connect(h, ok)
    \/ \E h \in Handlers, ok \in BOOLEAN : init_send(h, ok)
    \/ \E h \in Handlers, ir \in InitResponses : init_recv(h, ir)
    \/ \E h \in Handlers, ok \in BOOLEAN : audio_send(h, ok)
    \/ \E h \in Handlers : recv_frame(h)
    \/ \E h \in Handlers : handler_exit(h)

Spec == Init /\ [][Next]_vars

(***************************************************************************)
(* One session fed every response frame.  The recognition service answers  *)
(* with any frame, and may decide to deliver that frame once more as its   *)
(* next answer on the socket: a frame then arrives twice in succession.    *)
(***************************************************************************)
NextFrames(s) == IF resend[s] = NoFrame THEN Responses ELSE {resend[s]}

recv_tracked(h) ==
    /\ co[h].pc = "audio_recv"
    /\ \E r \in NextFrames(co[h].sess), again \in BOOLEAN :
          /\ again => client[co[h].sess].sequence < MaxSeq
          /\ audio_recv(h, r)
          /\ resend' = [resend EXCEPT ![co[h].sess] = IF again THEN r ELSE NoFrame]

NextTracker ==
    \/ next_id = 1 /\ handle_start_recognition(1, FirstCaller)
    \/ \E d \in BOOLEAN : handle_audio_chunk(1, 1, d)
    \/ \E ok \in BOOLEAN : connect(1, ok)
    \/ \E ok \in BOOLEAN : init_send(1, ok)
    \/ \E ir \in InitResponses : init_recv(1, ir)
    \/ \E ok \in BOOLEAN : audio_send(1, ok)
    \/ recv_tracked(1)
    \/ handler_exit(1)

SpecTracker == Init /\ [][NextTracker]_vars

(***************************************************************************)
(* The frame codec on its own: a message is encoded as process_chunk       *)
(* builds its frames (header, sequence number when the flags announce one, *)
(* 4-byte size, payload), the frame may be cut short or declare a larger   *)
(* size than it holds, and parse_response decodes it.                      *)
(***************************************************************************)
MessageKinds ==
    {FULL_CLIENT_REQUEST, AUDIO_ONLY_REQUEST, FULL_SERVER_RESPONSE, SERVER_ACK,
     SERVER_ERROR_RESPONSE}

SequenceChoices(flags) ==
    CASE flags = POS_SEQUENCE -> 1..MaxSeq
      [] flags = NEG_WITH_SEQUENCE -> {0 - n : n \in 1..MaxSeq}
      [] OTHER -> {0}

PayloadChoices(serial_method) ==
    IF serial_method = JSON
    THEN {[form |-> "json", bytes |-> <<>>, doc |-> d] : d \in JsonDocs}
    ELSE {[form |-> "bytes", bytes |-> b, doc |-> ""] : b \in {<<>>, <<7>>}}

Messages ==
    {[kind |-> k, flags |-> f, serial_method |-> sm, compression |-> c,
      has_sequence |-> (f % 2 = 1), sequence |-> sq, payload |-> pl] :
        k \in MessageKinds, f \in {NO_SEQUENCE, POS_SEQUENCE, NEG_SEQUENCE, NEG_WITH_SEQUENCE},
        sm \in {NO_SERIALIZATION, JSON}, c \in {NO_COMPRESSION, GZIP},
        sq \in -MaxSeq..MaxSeq, pl \in PayloadChoices(JSON) \cup PayloadChoices(NO_SERIALIZATION)}

ValidMessage(m) ==
    /\ m.sequence \in SequenceChoices(m.flags)
    /\ m.payload \in PayloadChoices(m.serial_method)

payload_bytes(m) ==
    LET text == IF m.serial_method = JSON THEN json_dumps(m.payload.doc) ELSE m.payload.bytes
    IN  IF m.compression = GZIP THEN gzip_compress(text) ELSE text

full_request(m, size) ==
    generate_header(m.kind, m.flags, m.serial_method, m.compression)
        \o (IF m.has_sequence THEN generate_before_payload(m.sequence) ELSE <<>>)
        \o to_bytes(size)
        \o payload_bytes(m)

InitCodec ==
    /\ ServiceInit
    /\ batch = BatchOff
    /\ http = HttpOff
    /\ feed = FeedOff
    /\ \E m \in Messages :
          /\ ValidMessage(m)
          /\ codec = [CodecOff EXCEPT !.stage = "message", !.msg = m]

encode ==
    /\ codec.stage = "message"
    /\ codec' = [codec EXCEPT !.stage = "frame",
                              !.res = full_request(codec.msg, Len(payload_bytes(codec.msg)))]
    /\ UNCHANGED <<service, batch, http, feed>>

cut_short(n) ==
    /\ codec.stage = "frame"
    /\ codec.damage = "none"
    /\ n < Len(codec.res)
    /\ codec' = [codec EXCEPT !.damage = "short", !.res = Take(codec.res, n)]
    /\ UNCHANGED <<service, batch, http, feed>>

oversize(extra) ==
    /\ codec.stage = "frame"
    /\ codec.damage = "none"
    /\ codec' = [codec EXCEPT
                    !.damage = "oversize",
                    !.res = full_request(codec.msg, Len(payload_bytes(codec.msg)) + extra)]
    /\ UNCHANGED <<service, batch, http, feed>>

decode ==
    /\ codec.stage = "frame"
    /\ codec' = [codec EXCEPT !.stage = "decoded", !.parsed = parse_response(codec.res)]
    /\ UNCHANGED <<service, batch, http, feed>>

MaxFrame == 20

MaxExtra == 2

NextCodec ==
    \/ encode
    \/ \E n \in 0..MaxFrame : cut_short(n)
    \/ \E extra \in 1..MaxExtra : oversize(extra)
    \/ decode

SpecCodec == InitCodec /\ [][NextCodec]_vars

(***************************************************************************)
(* The batch pacer: AsrWsClient.execute replays a recorded buffer through  *)
(* segment_data_processor.  The buffer is a few bytes long, and the sample *)
(* rates are scaled down so that a segment is a few bytes too; 16000 Hz is *)
(* kept for the sizes of a real stream.                                    *)
(***************************************************************************)
MaxData == 5

(* The keyword arguments of AsrWsClient and the buffer read from audio_path. *)
BatchInputs ==
    [has_path : BOOLEAN, format : {"pcm", "mp3", "wav", "ogg"}, rate : {10, 20, 16000},
     bits : {8, 16}, channel : {1, 2}, seg_duration : {100, 200},
     mp3_seg_size : {2, 1000}, streaming : BOOLEAN, data_len : 0..MaxData]

Buffer(n) == [k \in 1..n |-> k]

more_chunks_inclusive(offset, chunk_size, data_len) == offset + chunk_size <= data_len

more_chunks(offset, chunk_size, data_len) == offset + chunk_size < data_len

RECURSIVE slice_from(_, _, _)
slice_from(data, chunk_size, offset) ==
    IF more_chunks(offset, chunk_size, Len(data))
    THEN <<[chunk |-> SubSeq(data, offset + 1, offset + chunk_size), last |-> FALSE]>>
             \o slice_from(data, chunk_size, offset + chunk_size)
    ELSE <<[chunk |-> SubSeq(data, offset + 1, Len(data)), last |-> TRUE]>>

slice_data(data, chunk_size) == slice_from(data, chunk_size, 0)

pcm_segment_size(b) == (b.rate * 2 * b.channel * b.seg_duration) \div 500

(* read_wav_info: the header of the buffer states the same parameters. *)
wav_segment_size(b) == (b.channel * (b.bits \div 8) * b.rate * b.seg_duration) \div 1000

BatchFrame(kind, flags, seq, chunk) ==
    [kind |-> kind, flags |-> flags, seq |-> seq, chunk |-> chunk]

segment_flags_positive(last) == POS_SEQUENCE

segment_flags(last) == IF last THEN NEG_WITH_SEQUENCE ELSE POS_SEQUENCE

InitBatch ==
    /\ ServiceInit
    /\ codec = CodecOff
    /\ http = HttpOff
    /\ feed = FeedOff
    /\ \E inp \in BatchInputs :
          batch = [BatchOff EXCEPT !.stage = "ready", !.has_path = inp.has_path,
                                   !.format = inp.format, !.rate = inp.rate,
                                   !.bits = inp.bits, !.channel = inp.channel,
                                   !.seg_duration = inp.seg_duration,
                                   !.mp3_seg_size = inp.mp3_seg_size,
                                   !.streaming = inp.streaming,
                                   !.data = Buffer(inp.data_len)]

segment_data_processor(b, segment_size) ==
    [b EXCEPT !.stage = "connect", !.segment_size = segment_size, !.seq = 1]

execute(wav_ok) ==
    /\ batch.stage = "ready"
    /\ batch' =
          IF ~batch.has_path
          THEN [batch EXCEPT !.stage = "returned"]
          ELSE CASE batch.format = "mp3" ->
                       segment_data_processor(batch, batch.mp3_seg_size)
                 [] batch.format = "wav" ->
                       IF wav_ok
                       THEN segment_data_processor(batch, wav_segment_size(batch))
                       ELSE [batch EXCEPT !.stage = "raised"]
                 [] batch.format = "pcm" ->
                       segment_data_processor(batch, pcm_segment_size(batch))
                 [] OTHER -> [batch EXCEPT !.stage = "raised"]
    /\ UNCHANGED <<service, codec, http, feed>>

(* Any exception inside segment_data_processor returns the error dict. *)
segment_error(b) == [b EXCEPT !.stage = "failed", !.result = "error"]

(* The head of the loop over slice_data, or the return after its end. *)
next_segment(b) ==
    IF b.i < Len(b.chunks)
    THEN [b EXCEPT !.i = b.i + 1,
                   !.seq = IF b.chunks[b.i + 1].last THEN 0 - (b.seq + 1) ELSE b.seq + 1,
                   !.stage = "seg_send"]
    ELSE [b EXCEPT !.stage = "returned", !.result = "parsed"]

segment_connect(ok) ==
    /\ batch.stage = "connect"
    /\ batch' = IF ok THEN [batch EXCEPT !.stage = "init_send"] ELSE segment_error(batch)
    /\ UNCHANGED <<service, codec, http, feed>>

segment_init_send(ok) ==
    /\ batch.stage = "init_send"
    /\ batch' = IF ok
                THEN [batch EXCEPT
                         !.stage = "init_recv",
                         !.sent = <<BatchFrame(FULL_CLIENT_REQUEST, POS_SEQUENCE,
                                               batch.seq, <<>>)>>]
                ELSE segment_error(batch)
    /\ UNCHANGED <<service, codec, http, feed>>

segment_init_recv(ok) ==
    /\ batch.stage = "init_recv"
    /\ batch' = IF ok
                THEN next_segment([batch EXCEPT
                                      !.chunks = slice_data(batch.data, batch.segment_size)])
                ELSE segment_error(batch)
    /\ UNCHANGED <<service, codec, http, feed>>

segment_send(ok) ==
    /\ batch.stage = "seg_send"
    /\ batch' = IF ok
                THEN [batch EXCEPT
                         !.stage = "seg_recv",
                         !.sent = Append(@, BatchFrame(AUDIO_ONLY_REQUEST,
                                                       segment_flags(batch.chunks[batch.i].last),
                                                       batch.seq,
                                                       batch.chunks[batch.i].chunk))]
                ELSE segment_error(batch)
    /\ UNCHANGED <<service, codec, http, feed>>

(* in_time: the exchange took less than seg_duration, so sleep_time > 0. *)
segment_recv(ok, in_time) ==
    /\ batch.stage = "seg_recv"
    /\ batch' = IF ~ok
                THEN segment_error(batch)
                ELSE IF batch.streaming
                THEN [batch EXCEPT !.stage = "sleep", !.budget = in_time]
                ELSE next_segment(batch)
    /\ UNCHANGED <<service, codec, http, feed>>

segment_sleep ==
    /\ batch.stage = "sleep"
    /\ batch' = next_segment(batch)
    /\ UNCHANGED <<service, codec, http, feed>>

NextBatch ==
    \/ \E wav_ok \in BOOLEAN : execute(wav_ok)
    \/ \E ok \in BOOLEAN : segment_connect(ok)
    \/ \E ok \in BOOLEAN : segment_init_send(ok)
    \/ \E ok \in BOOLEAN : segment_init_recv(ok)
    \/ \E ok \in BOOLEAN : segment_send(ok)
    \/ \E ok \in BOOLEAN, in_time \in BOOLEAN : segment_recv(ok, in_time)
    \/ segment_sleep

SpecBatch == InitBatch /\ [][NextBatch]_vars

(***************************************************************************)
(* The HTTP routes POST /api/v1/extract/bytes (text_routes.py) and         *)
(* POST /api/v1/textToImage (image_routes.py): one request, its body and   *)
(* query string, and the response of the route.                            *)
(***************************************************************************)
HttpRequests ==
    {[HttpOff EXCEPT !.stage = "request", !.route = "extract_bytes", !.data = d,
                     !.has_file_type = q.has, !.file_type = q.type] :
        d \in {<<>>, <<1>>, <<1, 2>>},
        q \in {[has |-> FALSE, type |-> ""]}
                 \cup {[has |-> TRUE, type |-> ft] : ft \in {"", "pdf", ".PDF", "xyz", ".xyz"}}}
    \cup
    {[HttpOff EXCEPT !.stage = "request", !.route = "textToImage", !.is_json = TRUE,
                     !.has_text = k.has_text, !.text = k.text,
                     !.has_prompt = k.has_prompt, !.prompt = k.prompt] :
        k \in [has_text : BOOLEAN, text : {"", "cat"},
               has_prompt : BOOLEAN, prompt : {"", "cat"}]}
    \cup
    {[HttpOff EXCEPT !.stage = "request", !.route = "textToImage"]}

(* jsonify({"success": False, "error": ...}), status *)
ErrorReply(status, error) ==
    [NoReply EXCEPT !.status = status, !.has_error = TRUE, !.error = error]

(* jsonify({"success": ..., "code": ..., "message": ..., "data": ...}), status *)
MessageReply(status, success, message) ==
    [NoReply EXCEPT !.status = status, !.success = success, !.has_message = TRUE,
                    !.message = message]

supported_extensions ==
    {".docx", ".xlsx", ".pptx", ".pdf", ".txt", ".csv", ".rtf", ".doc", ".xls", ".ppt"}

(* f".{file_type.lower()}" if not file_type.startswith('.') else file_type.lower() *)
extension(file_type) ==
    CASE file_type \in {"pdf", ".PDF"} -> ".pdf"
      [] file_type \in {"xyz", ".xyz"} -> ".xyz"
      [] OTHER -> "." \o file_type

(* OfficeTextExtractor.extract_text_from_bytes: the result dict. *)
extractor_result(file_type, extracted) ==
    IF extension(file_type) \in supported_extensions
    THEN IF extracted THEN [NoReply EXCEPT !.status = 200, !.success = TRUE]
         ELSE ErrorReply(500, "extraction failed")
    ELSE ErrorReply(500, "unsupported file type: " \o file_type)

extract_reply_type_first(q, extracted) ==
    IF ~q.has_file_type \/ q.file_type = ""
    THEN ErrorReply(400, "Missing 'file_type' parameter")
    ELSE IF q.data = <<>>
    THEN ErrorReply(400, "No data in the request body")
    ELSE extractor_result(q.file_type, extracted)

extract_reply(q, extracted) ==
    IF q.data = <<>>
    THEN ErrorReply(400, "No data in the request body")
    ELSE IF ~q.has_file_type \/ q.file_type = ""
    THEN ErrorReply(400, "Missing 'file_type' parameter")
    ELSE extractor_result(q.file_type, extracted)

extract_text_from_bytes(extracted) ==
    /\ http.stage = "request"
    /\ http.route = "extract_bytes"
    /\ http' = [http EXCEPT
                   !.stage = "responded",
                   !.outcome = IF extracted THEN "extracted" ELSE "failed",
                   !.reply = extract_reply(http, extracted),
                   !.calls = IF http.data # <<>> /\ http.has_file_type /\ http.file_type # ""
                             THEN 1 ELSE 0]
    /\ UNCHANGED <<service, codec, batch, feed>>

(* A body that is no JSON: request.get_json() raises or returns None,      *)
(* depending on the Flask release and the Content-Type.                    *)
text_to_image_reply(q, raises, generated) ==
    IF ~q.is_json /\ raises
    THEN MessageReply(500, FALSE, "get_json")
    ELSE IF ~q.is_json \/ (~q.has_text /\ ~q.has_prompt) \/ ~q.has_text
    THEN MessageReply(400, FALSE, "Missing 'text' in request body")
    ELSE IF generated
    THEN MessageReply(200, TRUE, "")
    ELSE MessageReply(500, FALSE, "generate_image")

text_to_image(raises, generated) ==
    /\ http.stage = "request"
    /\ http.route = "textToImage"
    /\ http' = [http EXCEPT
                   !.stage = "responded",
                   !.outcome = (IF raises THEN "raises" ELSE "none")
                                   \o (IF generated THEN "/generated" ELSE "/failed"),
                   !.reply = text_to_image_reply(http, raises, generated),
                   !.calls = IF http.is_json /\ http.has_text THEN 1 ELSE 0]
    /\ UNCHANGED <<service, codec, batch, feed>>

InitHttp ==
    /\ ServiceInit
    /\ codec = CodecOff
    /\ batch = BatchOff
    /\ feed = FeedOff
    /\ http \in HttpRequests

NextHttp ==
    \/ \E extracted \in BOOLEAN : extract_text_from_bytes(extracted)
    \/ \E raises \in BOOLEAN, generated \in BOOLEAN : text_to_image(raises, generated)

SpecHttp == InitHttp /\ [][NextHttp]_vars

(***************************************************************************)
(* The tracker of one client fed responses whose utterances carry up to    *)
(* MaxList words, in one utterance or spread over two: the part of         *)
(* process_chunk that follows parse_response.                              *)
(***************************************************************************)
MaxList == 3

(* The responses that claim one of the sequence numbers seqs. *)
WordResponses(seqs) ==
    {BlankResponse, [BlankResponse EXCEPT !.has_msg = TRUE],
     [BlankResponse EXCEPT !.has_msg = TRUE, !.has_result = TRUE]}
        \cup
    {[outcome |-> "ok", has_seq |-> TRUE, payload_sequence |-> sq,
      has_msg |-> TRUE, has_result |-> TRUE, text |-> "ab", is_final |-> FALSE,
      utterances |-> u] :
        sq \in seqs,
        u \in {NoUtterances, [present |-> TRUE, list |-> <<>>],
               [present |-> TRUE, list |-> <<[has_words |-> FALSE, words |-> <<>>]>>]}
                 \cup {[present |-> TRUE, list |-> <<[has_words |-> TRUE, words |-> w]>>] :
                         w \in BoundedSeq(Words, MaxList)}
                 \cup {[present |-> TRUE,
                        list |-> <<[has_words |-> TRUE, words |-> <<v>>],
                                   [has_words |-> TRUE, words |-> <<w>>]>>] :
                         v \in Words, w \in Words}}

InitFeed ==
    /\ ServiceInit
    /\ codec = CodecOff
    /\ batch = BatchOff
    /\ http = HttpOff
    /\ feed = [FeedOff EXCEPT !.stage = "ready"]

track_response(r) ==
    /\ feed.stage \in {"ready", "fed"}
    /\ feed' = [stage |-> "fed", tracker |-> track(feed.tracker, r), pre |-> feed.tracker,
                resp |-> r, partial_text |-> partial_text(feed.tracker, r)]
    /\ UNCHANGED <<service, codec, batch, http>>

(* The service answers with the sequence number accepted last or the next. *)
NextFeed ==
    \E r \in WordResponses({n \in {feed.tracker.last_sequence,
                                    feed.tracker.last_sequence + 1} : n <= MaxRespSeq}) :
        track_response(r)

SpecFeed == InitFeed /\ [][NextFeed]_vars

(***************************************************************************)
(* Properties.                                                             *)
(***************************************************************************)
Finished(h) == co[h].pc = "done" /\ co[h].result.returned

Fed(h) == Finished(h) /\ co[h].resp.outcome = "ok"

ClaimedSequence(r) == IF r.has_seq THEN r.payload_sequence ELSE 0

TrackerNow(h) == client[co[h].sess].tracker

SameTracker(a, b) ==
    /\ a.last_sequence = b.last_sequence
    /\ a.accumulated_text = b.accumulated_text
    /\ a.last_words = b.last_words

Receiving(s) ==
    {h \in Handlers : co[h].sess = s /\ co[h].pc \in {"init_recv", "audio_recv"}}

\* C1: on every session's socket at most one frame (init or audio) is waiting
\* for its response, whatever the interleaving of the handlers: no handler
\* sends a frame on the socket while another one awaits a response on it.
C1_OneOutstandingFrame ==
    \A s \in SessionIds : Cardinality(Receiving(s)) <= 1

\* A handler awaits the response to its audio frame while a second
\* audio_chunk for the same session has come and gone.
C1_Witness ==
    \E h, g \in Handlers :
        /\ co[h].pc = "audio_recv"
        /\ co[g].pc = "done"
        /\ co[g].op = "audio"
        /\ co[g].sess = co[h].sess
        /\ co[g].events = {"error", "audio_received"}

\* C2: a response whose sequence number is not greater than last_sequence
\* yields an empty partial_text, leaves last_sequence, accumulated_text and
\* last_words as they were, and full_text is the text accumulated before.
C2_StaleResponseDiscarded ==
    \A h \in Handlers :
        (Fed(h) /\ ClaimedSequence(co[h].resp) <= co[h].pre.last_sequence) =>
            /\ co[h].result.partial_text = ""
            /\ SameTracker(TrackerNow(h), co[h].pre)
            /\ co[h].result.full_text = co[h].pre.accumulated_text

\* A response claiming sequence 2, with text and words the tracker has not
\* seen, arrives after the response claiming sequence 3 was accepted.
C2_Witness ==
    \E h \in Handlers :
        /\ Fed(h)
        /\ co[h].resp.has_result
        /\ co[h].resp.has_seq
        /\ co[h].resp.payload_sequence = 2
        /\ co[h].pre.last_sequence = 3
        /\ co[h].pre.accumulated_text # ""
        /\ co[h].resp.text \notin {"", co[h].pre.accumulated_text}
        /\ \E i \in 1..Len(current_words(co[h].resp)) :
               ~InSeq(current_words(co[h].resp)[i], co[h].pre.last_words)

\* C3: no step decreases the last_sequence of a session's tracker.
C3_LastSequenceMonotonic ==
    [][\A s \in SessionIds :
          client'[s].tracker.last_sequence >= client[s].tracker.last_sequence]_vars

\* A response with text arrived that claims a lower sequence number than the
\* tracker's last_sequence.
C3_Witness ==
    \E h \in Handlers :
        /\ Fed(h)
        /\ co[h].resp.has_result
        /\ co[h].resp.text # ""
        /\ co[h].resp.has_seq
        /\ co[h].resp.payload_sequence < co[h].pre.last_sequence
        /\ co[h].resp.payload_sequence > 0

\* C4: after a call that accepts a response (text present, sequence greater
\* than last_sequence) full_text is the text of that response, also when the
\* response brings no new word.
C4_FullTextIsAcceptedText ==
    \A h \in Handlers :
        (/\ Fed(h)
         /\ co[h].resp.has_result
         /\ co[h].resp.text # ""
         /\ ClaimedSequence(co[h].resp) > co[h].pre.last_sequence) =>
            co[h].result.full_text = co[h].resp.text

\* C5: a response frame that arrives twice in succession yields an empty
\* partial_text the second time, and the second call leaves full_text,
\* last_words and last_sequence as the first call left them.
C5_RepeatedFrameIsNoOp ==
    \A h \in Handlers :
        (Finished(h) /\ co[h].replay) =>
            /\ co[h].result.partial_text = ""
            /\ SameTracker(TrackerNow(h), co[h].pre)
            /\ co[h].result.full_text = co[h].pre.accumulated_text

\* The frame that arrives a second time is one the first call accepted with
\* new words.
C5_Witness ==
    \E h \in Handlers :
        /\ Fed(h)
        /\ co[h].replay
        /\ co[h].resp.has_result
        /\ co[h].pre.last_words # <<>>
        /\ co[h].pre.last_words = current_words(co[h].resp)
        /\ co[h].pre.accumulated_text = co[h].resp.text
        /\ co[h].pre.last_sequence = ClaimedSequence(co[h].resp)

\* C6: a call in which the socket or the decoding of the response fails
\* returns an error result with an empty partial_text, is_final false and the
\* text accumulated before the call as full_text, and leaves the tracker as
\* it was.
C6_ErrorResultKeepsTranscript ==
    \A h \in Handlers :
        Finished(h) =>
            /\ co[h].resp.outcome \in Failures => co[h].result.has_error
            /\ co[h].result.has_error =>
                  /\ co[h].result.partial_text = ""
                  /\ ~co[h].result.is_final
                  /\ co[h].result.full_text = co[h].pre.accumulated_text
                  /\ SameTracker(TrackerNow(h), co[h].pre)

\* The body of a response does not inflate when text has been accumulated.
C6_Witness ==
    \E h \in Handlers :
        /\ Finished(h)
        /\ co[h].resp.outcome = "gzip_fail"
        /\ co[h].result.has_error
        /\ co[h].pre.accumulated_text # ""

\* C7: an audio fragment whose process_chunk call ends in an error result
\* makes process_audio_data emit an error event.
C7_ErrorResultIsReported ==
    \A h \in Handlers :
        (Finished(h) /\ co[h].op = "audio" /\ co[h].result.has_error) =>
            "error" \in co[h].events

\* C8: once a process_chunk call of a session has ended in an error, the
\* session is out of the registry when the handler is done, as after a close.
C8_ErroredIsTornDown ==
    \A h \in Handlers :
        (Finished(h) /\ co[h].op \in {"start", "audio"} /\ co[h].result.has_error) =>
            ~Registered(co[h].sess)

HasAudioFrame(s) ==
    \E i \in 1..Len(wire[s]) : wire[s][i].kind = AUDIO_ONLY_REQUEST

\* C9: an audio frame is on a socket only after the init exchange on it
\* succeeded, and start_recognition reports session_created only then.
C9_AudioOnlyAfterInit ==
    \A s \in SessionIds :
        /\ HasAudioFrame(s) => init_ok[s]
        /\ \A h \in Handlers :
              (/\ co[h].pc = "done"
               /\ co[h].op = "start"
               /\ co[h].sess = s
               /\ "session_created" \in co[h].events) => init_ok[s]

\* C10: on each socket the init frame carries sequence 1, every frame has the
\* flag PositiveSequence, the audio frames carry 2, 3, ... strictly ascending,
\* and a response is processed for the frame sent last.
C10_AscendingSequence ==
    \A s \in SessionIds :
        /\ \A i \in 1..Len(wire[s]) :
              /\ wire[s][i].flags = POS_SEQUENCE
              /\ wire[s][i].kind = FULL_CLIENT_REQUEST => wire[s][i].seq = 1
              /\ wire[s][i].kind = AUDIO_ONLY_REQUEST => wire[s][i].seq >= 2
              /\ \A j \in 1..Len(wire[s]) : i < j => wire[s][i].seq < wire[s][j].seq
        /\ \A h \in Receiving(s) :
              /\ wire[s] # <<>>
              /\ wire[s][Len(wire[s])].seq = client[s].sequence

\* A socket has carried the init frame and two audio frames.
C10_Witness ==
    \E s \in SessionIds :
        /\ Len(wire[s]) >= 3
        /\ wire[s][1].kind = FULL_CLIENT_REQUEST
        /\ wire[s][3].kind = AUDIO_ONLY_REQUEST

LastFrame(s) == wire[s][Len(wire[s])]

\* C11: when end_recognition has sent its audio frame on the session's socket,
\* that frame carries the negated sequence number and the flag
\* NegativeWithSequence.
C11_EndSendsTerminalFrame ==
    \A h \in Handlers :
        (co[h].op = "end" /\ co[h].pc = "audio_recv") =>
            /\ LastFrame(co[h].sess).flags = NEG_WITH_SEQUENCE
            /\ LastFrame(co[h].sess).seq < 0

Ended(s) == s < next_id /\ ~Registered(s)

\* C12: a session that has been ended is out of the registry and its socket
\* is closed.
C12_EndedSessionIsClosed ==
    \A s \in SessionIds : Ended(s) => ~client[s].has_ws

\* C13: when the disconnect of a caller has been served, every session the
\* caller owned is out of the registry and its socket is closed.
C13_DisconnectClosesSockets ==
    \A h \in Handlers :
        (co[h].op = "disconnect" /\ co[h].pc = "done") =>
            \A s \in co[h].purge : ~Registered(s) /\ ~client[s].has_ws

\* C14: a call reports is_final = true only for the response to the terminal
\* frame (negated sequence number, flag NegativeWithSequence), never for the
\* response to an earlier audio frame.
C14_FinalOnlyOnTerminalFrame ==
    \A h \in Handlers :
        (Fed(h) /\ co[h].result.is_final) =>
            /\ LastFrame(co[h].sess).flags = NEG_WITH_SEQUENCE
            /\ LastFrame(co[h].sess).seq < 0

\* C15: a final response that brings no new words is surfaced to the caller
\* of the audio fragment: an event carrying is_final is emitted for it.
C15_FinalWithoutWordsIsSurfaced ==
    \A h \in Handlers :
        (/\ Fed(h)
         /\ co[h].op = "audio"
         /\ co[h].result.is_final
         /\ co[h].result.partial_text = "") =>
            "partial_result" \in co[h].events

(***************************************************************************)
(* The scheduling of one session.  The steps of the program itself are     *)
(* taken when they can be: a handler returns, connect and send complete or *)
(* raise.  No timeout guards recv and the recognition service owes no      *)
(* answer, so nothing forces the receipt of a response.                    *)
(***************************************************************************)
Scheduled ==
    \/ \E ok \in BOOLEAN : connect(1, ok)
    \/ \E ok \in BOOLEAN : init_send(1, ok)
    \/ \E ok \in BOOLEAN : audio_send(1, ok)
    \/ handler_exit(1)

SpecWait == Init /\ [][NextTracker]_vars /\ WF_vars(Scheduled)

BlockedElsewhere(g) ==
    \E h \in Handlers :
        /\ h # g
        /\ co[h].pc \in Suspended
        /\ co[h].sess # co[g].sess

\* C16: an audio fragment that passed the checks of audio_chunk for a session
\* with a client, dispatched while a handler of another session is blocked
\* in a socket operation, is sent and answered: its process_chunk call
\* returns a result.
C16_SessionsIndependent ==
    \A g \in Handlers :
        (/\ co[g].pc = "done"
         /\ co[g].op = "audio"
         /\ "audio_received" \in co[g].events
         /\ Registered(co[g].sess)
         /\ sessions[co[g].sess].asr_client
         /\ BlockedElsewhere(g)) =>
            co[g].result.returned

\* C17: a handler that waits for the response to an audio frame eventually
\* finishes with a result or an error, also when the recognition service
\* never answers.
C17_ReceiveIsBounded ==
    \A h \in Handlers : (co[h].pc = "audio_recv") ~> (co[h].pc = "done")

Decoded == codec.stage = "decoded"

\* C18: parse_response, given fewer than 4 bytes or a frame that declares a
\* larger payload size than it holds, returns a MalformedFrame outcome and
\* raises nothing.
C18_MalformedFrameReported ==
    (Decoded /\ (Len(codec.res) < 4 \/ codec.damage = "oversize")) =>
        /\ ~codec.parsed.raises
        /\ codec.parsed.outcome = "MalformedFrame"

\* C19: parse_response applied to the frame encoded from a valid message
\* returns the sequence number and the payload of the message, and the
\* terminal mark of its flags.
C19_RoundTrip ==
    (Decoded /\ codec.damage = "none") =>
        /\ ~codec.parsed.raises
        /\ codec.parsed.has_payload_sequence = codec.msg.has_sequence
        /\ codec.parsed.payload_sequence = codec.msg.sequence
        /\ codec.parsed.has_payload_msg
        /\ codec.parsed.payload_msg = codec.msg.payload

\* C20: a frame that parse_response decodes is marked is_last_package exactly
\* when bit 1 of its flags nibble is set, whatever its message kind.
C20_TerminalBit ==
    (Decoded /\ ~codec.parsed.raises) =>
        (codec.parsed.is_last_package <=> ((codec.res[2] % 16) \div 2) % 2 = 1)

\* A SERVER_ACK frame with flags NegativeWithSequence was decoded as terminal.
C20_Witness ==
    /\ Decoded
    /\ codec.damage = "none"
    /\ ~codec.parsed.raises
    /\ codec.msg.kind = SERVER_ACK
    /\ codec.msg.flags = NEG_WITH_SEQUENCE
    /\ codec.parsed.is_last_package

\* C21: the batch pacer sends the init frame with sequence 1, then one audio
\* frame per segment with sequences 2, 3, ...; the only terminal frame (flag
\* NegativeWithSequence, negated sequence) is the frame of the final segment
\* and nothing is sent after it; a replay that returns has sent it, with or
\* without pacing sleeps and with or without sleep budget left.
C21_TerminalFrameSentLast ==
    LET w == batch.sent
    IN  /\ \A k \in 1..Len(w) :
              /\ k = 1 => w[k] = BatchFrame(FULL_CLIENT_REQUEST, POS_SEQUENCE, 1, <<>>)
              /\ k > 1 =>
                    /\ w[k].kind = AUDIO_ONLY_REQUEST
                    /\ w[k].chunk = batch.chunks[k - 1].chunk
                    /\ w[k].seq \in {k, 0 - k}
                    /\ w[k].flags \in {POS_SEQUENCE, NEG_WITH_SEQUENCE}
                    /\ (w[k].flags = NEG_WITH_SEQUENCE) <=> w[k].seq < 0
                    /\ (w[k].flags = NEG_WITH_SEQUENCE) <=> k = Len(batch.chunks) + 1
                    /\ (w[k].flags = NEG_WITH_SEQUENCE) => k = Len(w)
        /\ (batch.stage = "returned" /\ batch.has_path) =>
              /\ Len(w) = Len(batch.chunks) + 1
              /\ (w[Len(w)].flags = NEG_WITH_SEQUENCE)
              /\ Cardinality({k \in 1..Len(w) : (w[k].flags = NEG_WITH_SEQUENCE)}) = 1

\* A paced replay of four segments has returned, the last exchange having
\* used up its sleep budget.
C21_Witness ==
    /\ batch.stage = "returned"
    /\ batch.streaming
    /\ ~batch.budget
    /\ Len(batch.sent) = 5
    /\ batch.sent[5].seq = -5

\* C22: for a raw PCM buffer the segment size in bytes is
\* sample_rate * bytes_per_sample * channel_count * segment_duration_ms / 1000.
C22_PcmSegmentSize ==
    (batch.format = "pcm" /\ batch.has_path /\ batch.stage \notin {"off", "ready"}) =>
        batch.segment_size =
            (batch.rate * (batch.bits \div 8) * batch.channel * batch.seg_duration) \div 1000

RECURSIVE ConcatChunks(_)
ConcatChunks(cs) == IF cs = <<>> THEN <<>> ELSE Head(cs).chunk \o ConcatChunks(Tail(cs))

\* C30: the chunks slice_data yields, concatenated in order, are the buffer;
\* every chunk but the final one has exactly chunk_size bytes and is not
\* flagged last; the final one is flagged last and, for a non-empty buffer,
\* holds between 1 and chunk_size bytes; an empty buffer yields one empty
\* chunk flagged last.
C30_SlicePartitions ==
    LET cs == batch.chunks
        n == Len(cs)
    IN  (n > 0 /\ batch.segment_size >= 1) =>
            /\ ConcatChunks(cs) = batch.data
            /\ \A k \in 1..(n - 1) :
                  Len(cs[k].chunk) = batch.segment_size /\ ~cs[k].last
            /\ cs[n].last
            /\ batch.data # <<>> => Len(cs[n].chunk) \in 1..batch.segment_size
            /\ batch.data = <<>> => cs = <<[chunk |-> <<>>, last |-> TRUE]>>

\* A buffer of five bytes was cut into segments of two bytes: two full
\* chunks and a final chunk of one byte.
C30_Witness ==
    /\ Len(batch.data) = 5
    /\ batch.segment_size = 2
    /\ Len(batch.chunks) = 3
    /\ Len(batch.chunks[3].chunk) = 1

\* C23: POST /api/v1/extract/bytes answers an empty body with status 400 and
\* the error 'No data in the request body', with or without file_type; a
\* non-empty body without file_type with status 400 and the error "Missing
\* 'file_type' parameter"; a non-empty body with an unsupported file_type
\* with status 500 and an unsupported-file-type error; success is false in
\* each case.
C23_ExtractBytesValidation ==
    (http.stage = "responded" /\ http.route = "extract_bytes") =>
        /\ http.data = <<>> =>
              http.reply = ErrorReply(400, "No data in the request body")
        /\ (http.data # <<>> /\ ~http.has_file_type) =>
              http.reply = ErrorReply(400, "Missing 'file_type' parameter")
        /\ (http.data # <<>> /\ http.has_file_type /\ http.file_type \in {"xyz", ".xyz"}) =>
              /\ http.reply.status = 500
              /\ ~http.reply.success
              /\ http.reply.has_error
              /\ http.reply.error = "unsupported file type: " \o http.file_type

\* An empty body that names a supported file_type was rejected.
C23_Witness ==
    /\ (http.stage = "responded" /\ http.route = "extract_bytes")
    /\ http.data = <<>>
    /\ http.has_file_type
    /\ http.file_type = "pdf"
    /\ http.reply.status = 400

\* C24: POST /api/v1/textToImage answers a JSON body without 'prompt' with
\* status 400, success false and the error "Missing 'prompt' in request
\* body", an empty prompt with status 400 and 'prompt cannot be empty', and
\* calls the image generator for neither.
C24_PromptValidation ==
    ((http.stage = "responded" /\ http.route = "textToImage") /\ http.is_json) =>
        /\ ~http.has_prompt =>
              /\ http.reply = ErrorReply(400, "Missing 'prompt' in request body")
              /\ http.calls = 0
        /\ (http.has_prompt /\ http.prompt = "") =>
              /\ http.reply = ErrorReply(400, "prompt cannot be empty")
              /\ http.calls = 0

(* The entries of a word list that are no member of the set of seen words. *)
RECURSIVE Unseen(_, _)
Unseen(ws, seen) ==
    IF ws = <<>> THEN <<>>
    ELSE (IF Head(ws) \in seen THEN <<>> ELSE <<Head(ws)>>) \o Unseen(Tail(ws), seen)

\* C25: when a response is accepted (text present, sequence greater than
\* last_sequence) and its word list has a word that is no member of
\* last_words, partial_text is the concatenation, in order, of exactly the
\* entries of the flattened word list that are no member of the last_words
\* held before the call, and last_words becomes the flattened word list.
C25_PartialTextIsUnseenWords ==
    LET ws == current_words(feed.resp)
        seen == {feed.pre.last_words[k] : k \in 1..Len(feed.pre.last_words)}
    IN  (/\ feed.stage = "fed"
         /\ feed.resp.has_msg
         /\ feed.resp.has_result
         /\ feed.resp.text # ""
         /\ ClaimedSequence(feed.resp) > feed.pre.last_sequence
         /\ \E k \in 1..Len(ws) : ws[k] \notin seen) =>
            /\ feed.partial_text = Join(Unseen(ws, seen))
            /\ feed.partial_text # ""
            /\ feed.tracker.last_words = ws

\* The word list a, b, a was accepted when last_words held a: the word b is
\* emitted alone, the word a is dropped both times.
C25_Witness ==
    /\ feed.stage = "fed"
    /\ feed.pre.last_words = <<"a">>
    /\ current_words(feed.resp) = <<"a", "b", "a">>
    /\ feed.tracker.last_words = <<"a", "b", "a">>
    /\ feed.partial_text = "b"

\* C28: a response without a sequence number, or with a zero or negative
\* one, yields an empty partial_text and leaves last_sequence,
\* accumulated_text and last_words as they were.
C28_UnsequencedResponseIgnored ==
    \A h \in Handlers :
        (Fed(h) /\ (~co[h].resp.has_seq \/ co[h].resp.payload_sequence <= 0)) =>
            /\ co[h].result.partial_text = ""
            /\ SameTracker(TrackerNow(h), co[h].pre)
            /\ co[h].result.sequence = co[h].pre.last_sequence

\* A response without a sequence number that carries text and a word reached
\* a tracker that had accepted nothing yet.
C28_Witness ==
    \E h \in Handlers :
        /\ Fed(h)
        /\ ~co[h].resp.has_seq
        /\ co[h].resp.has_result
        /\ co[h].resp.text # ""
        /\ current_words(co[h].resp) # <<>>
        /\ co[h].pre = NewTracker

\* C26: a step taken for one session (an audio fragment, an end, a start) or
\* for the purge of one caller's sessions leaves every other session as it
\* was: its registry entry, its client (local sequence counter,
\* last_sequence, accumulated_text, last_words) and the frames on its socket;
\* a purge leaves every session of another caller as it was.
C26_OtherSessionsUntouched ==
    [][\A h \in Handlers : \A s \in SessionIds :
          (/\ co'[h] # co[h]
           /\ \/ s \notin {co[h].sess, co'[h].sess}
              \/ /\ co'[h].op = "disconnect"
                 /\ Registered(s)
                 /\ sessions[s].sid # co'[h].caller) =>
             /\ Registered(s) <=> s \in DOMAIN sessions'
             /\ Registered(s) => sessions'[s] = sessions[s]
             /\ client'[s] = client[s]
             /\ wire'[s] = wire[s]]_vars

\* The sessions of one caller were purged while a session of another caller,
\* with a socket and frames sent on it, stayed registered.
C26_Witness ==
    \E h \in Handlers : \E s \in SessionIds :
        /\ co[h].op = "disconnect"
        /\ co[h].pc = "done"
        /\ co[h].purge # {}
        /\ Registered(s)
        /\ sessions[s].sid # co[h].caller
        /\ client[s].has_ws
        /\ wire[s] # <<>>

C29_CleanupAlwaysRemoves ==
    /\ [](\A h \in Handlers :
            /\ (co[h].op = "end" /\ co[h].pc = "done" /\ "error" \notin co[h].events) =>
                  ~Registered(co[h].sess)
            /\ (co[h].op = "disconnect" /\ co[h].pc \in {"cleanup_next", "done"}) =>
                  ~Registered(co[h].sess))
    /\ [][\A h \in Handlers :
            (/\ co[h].pc = "cleanup_next"
             /\ co'[h] # co[h]
             /\ ~Registered(First(co[h].todo))) =>
                UNCHANGED <<sessions, client, wire, init_ok>>]_vars

\* The final exchange of an end_recognition failed and the session is out of
\* the registry.
C29_Witness ==
    \E h \in Handlers :
        /\ co[h].op = "end"
        /\ co[h].pc = "done"
        /\ co[h].result.has_error
        /\ co[h].sess < next_id
        /\ ~Registered(co[h].sess)

=============================================================================
